---- MODULE Spec2Model ----
(***************************************************************************)
(* Model of the DIP batch tools:                                           *)
(*   aips/create_dips_job.py        main, filter_aips   (Batch Driver)     *)
(*   dips/storage_service_upload.py main, check_async   (Upload)           *)
(*                                                                         *)
(* Three specifications share the variables:                               *)
(*   Spec        several runs of create_dips_job.main on one ledger        *)
(*   SpecFilter  filter_aips applied to bounded inputs                     *)
(*   SpecUpload  one call of storage_service_upload.main                   *)
(*                                                                         *)
(* Python values: None is "None", integer statuses are "0".."4"; a value   *)
(* returned by create_dip.main is [kind |-> "path" or "int", val |-> ..].  *)
(***************************************************************************)
EXTENDS Integers, Sequences, FiniteSets, TLC

\* ------------------------------------------------------------------ bounds
NumRuns == 2
MaxAips == 3
MaxRecords == 3
MaxTries == 3

\* --------------------------------------------------------------- constants
Runs == 1..NumRuns
Uuids == {"A", "B"}
LOCATION_UUID == "L1"
OTHER_LOCATION_UUID == "L2"
UploadTypes == {"None", "ss-upload", "atom-upload"}

VARIABLES
  \* ---- create_dips_job.main, one per run, and the shared ledger
  ledger,        \* rows of the Aip table, in insertion order
  pc,            \* position of each run in main
  upload_type,   \* args["upload_type"]: the runs are runs of one configured job
  aip_uuids,     \* the filtered list of each run
  idx,           \* 1-based position of the for loop in aip_uuids
  dip_path,      \* value returned by the last create_dip.main call
  ret,           \* return value of main ("running" until it returns)
  failed,        \* precondition that failed: "none", "db", "list"
  raised,        \* exception that left main: "none" or its cause
  claims,        \* history: claim attempts [run, pos, uuid, outcome]
  dip_calls,     \* history: create_dip.main calls [run, pos, uuid, result]
  upload_calls,  \* history: uploader calls [run, pos, uploader, dip_path]
  \* ---- filter_aips
  f_pc, f_aips, f_location_uuid, f_result,
  \* ---- storage_service_upload.main and check_async, one call
  u_pc,                 \* position in main
  u_dip_path,           \* argument dip_path
  u_delete_local_copy,  \* argument delete_local_copy
  u_existed,            \* an entry was at upload_dip_dir when main was called
  u_staging,            \* upload_dip_dir: "absent", "foreign", "copy", "partial"
  u_source,             \* dip_path on disk: "present", "removed"
  u_copy,               \* copytree: "none", "ok", "failed"
  u_response,           \* response of the POST, NoResponse before it
  u_ret,                \* return value of main ("running" until it returns)
  u_raised,             \* exception that left main, "none" otherwise
  u_ops,                \* history: filesystem and HTTP operations, in order
  u_log,                \* history: LOGGER messages, in order
  c_tries,              \* check_async: parameter tries
  c_i,                  \* check_async: iterations of the loop entered
  c_outcome,            \* check_async: NotCalled, or how the call ended
  c_response,           \* check_async: the last response of requests.get
  c_error,              \* check_async: the exception it raised, "none" otherwise
  c_slept               \* check_async: seconds spent in time.sleep

batch_vars == <<ledger, pc, upload_type, aip_uuids, idx, dip_path, ret,
                failed, raised, claims, dip_calls, upload_calls>>
filter_vars == <<f_pc, f_aips, f_location_uuid, f_result>>
upload_vars == <<u_pc, u_dip_path, u_delete_local_copy, u_existed, u_staging,
                 u_source, u_copy, u_response, u_ret, u_raised, u_ops, u_log,
                 c_tries, c_i, c_outcome, c_response, c_error, c_slept>>
poll_hist == <<c_response, c_error, c_slept>>
vars == <<batch_vars, filter_vars, upload_vars>>

Range(s) == {s[i] : i \in 1..Len(s)}

RECURSIVE SeqsUpTo(_, _)
SeqsUpTo(S, n) ==
  IF n = 0 THEN {<<>>}
  ELSE LET shorter == SeqsUpTo(S, n - 1)
       IN shorter \cup {Append(s, x) : s \in {t \in shorter : Len(t) = n - 1}, x \in S}

\* ============================================================ filter_aips
\* location = "/api/v2/location/{}/".format(location_uuid)
LocationRef(location_uuid) == "/api/v2/location/" \o location_uuid \o "/"

\* An AIP of the SS response is a dict: a function whose domain is a subset
\* of {"uuid", "current_location"}.
HasKey(aip, key) == key \in DOMAIN aip

KeepsAipMutantNoLocationCheck(aip, location) ==
  /\ HasKey(aip, "uuid")
  /\ HasKey(aip, "current_location")

\* The three `continue` guards of the loop body: the record is appended only
\* when none of them fires.
KeepsAip(aip, location) ==
  IF ~HasKey(aip, "uuid") THEN FALSE
  ELSE IF ~HasKey(aip, "current_location") THEN FALSE
  ELSE IF aip["current_location"] # location THEN FALSE
  ELSE TRUE

\* The for loop, from record i on, with the list built so far.
RECURSIVE filter_loop(_, _, _, _)
filter_loop(aips, location, i, filtered_aips) ==
  IF i > Len(aips) THEN filtered_aips
  ELSE IF KeepsAip(aips[i], location)
       THEN filter_loop(aips, location, i + 1, Append(filtered_aips, aips[i]["uuid"]))
       ELSE filter_loop(aips, location, i + 1, filtered_aips)

filter_aips(aips, location_uuid) ==
  filter_loop(aips, LocationRef(location_uuid), 1, <<>>)

\* ============================================== create_dips_job.main state
\* Listings the SS may answer with in Spec: records at the target location
\* and elsewhere, identifiers possibly repeated.
ListingRecords ==
  {[uuid |-> "A", current_location |-> LocationRef(LOCATION_UUID)],
   [uuid |-> "B", current_location |-> LocationRef(LOCATION_UUID)],
   [uuid |-> "B", current_location |-> LocationRef(OTHER_LOCATION_UUID)]}
Listings == SeqsUpTo(ListingRecords, MaxAips)
\* filter_aips(aips, args["location_uuid"]) for every listing aips
FilteredListings == {filter_aips(aips, LOCATION_UUID) : aips \in Listings}

\* Number of identifiers the runs 1..n have in their filtered lists; MaxAips
\* caps the total over all runs.
RECURSIVE Listed(_, _)
Listed(lists, n) == IF n = 0 THEN 0 ELSE Len(lists[n]) + Listed(lists, n - 1)

NoDip == [kind |-> "none", val |-> ""]
DipFailure == [kind |-> "int", val |-> "1"]
DipCreated(uuid) == [kind |-> "path", val |-> "output/" \o uuid]

\* create_dip.main: a path to the DIP, or an integer status on failure.
create_dip_main(uuid) == {DipCreated(uuid), DipFailure}

\* The unique column of the Aip table: committing a second row with the
\* same uuid raises IntegrityError.
CommitResults(rows, uuid) ==
  IF uuid \in Range(rows) THEN {"IntegrityError", "OtherError"}
  ELSE {"ok", "OtherError"}

AfterCommitMutantUncaught(result) ==
  IF result = "ok" THEN "proceed" ELSE "raise"

AfterCommitMutantNoContinue(result) ==
  IF result = "OtherError" THEN "raise" ELSE "proceed"

\* try: add, commit / except exc.IntegrityError: rollback, continue.
\* Any other exception of the commit is not caught.
AfterCommit(result) ==
  CASE result = "ok" -> "proceed"
    [] result = "IntegrityError" -> "continue"
    [] OTHER -> "raise"

PreconditionStatusMutantSwapped(failure) ==
  IF failure = "db" THEN "2" ELSE "1"

\* except IOError: return 1  /  except Exception: return 2
PreconditionStatus(failure) ==
  IF failure = "db" THEN "1" ELSE "2"

\* The uploader that main calls after create_dip.main returned dip_path.
Uploader(type, path) ==
  IF type = "ss-upload" THEN "storage_service_upload"
  ELSE IF type = "atom-upload" THEN "atom_upload"
  ELSE "none"

\* storage_service_upload.main as seen by its caller: os.path.basename of a
\* value that is not a path raises; with a path it returns a status, or the
\* exception of the submission request leaves it.
ss_upload_main(path) ==
  IF path.kind # "path" THEN {"raise"} ELSE {"return", "raise"}

\* atom_upload.main as seen by its caller.
atom_upload_main(path) == {"return"}

BatchInit ==
  /\ ledger = <<>>
  /\ pc = [r \in Runs |-> "start"]
  /\ upload_type \in UploadTypes
  /\ aip_uuids = [r \in Runs |-> <<>>]
  /\ idx = [r \in Runs |-> 0]
  /\ dip_path = [r \in Runs |-> NoDip]
  /\ ret = [r \in Runs |-> "running"]
  /\ failed = [r \in Runs |-> "none"]
  /\ raised = [r \in Runs |-> "none"]
  /\ claims = {}
  /\ dip_calls = {}
  /\ upload_calls = {}

BatchIdle ==
  /\ ledger = <<>>
  /\ pc = [r \in Runs |-> "idle"]
  /\ upload_type = "None"
  /\ aip_uuids = [r \in Runs |-> <<>>]
  /\ idx = [r \in Runs |-> 0]
  /\ dip_path = [r \in Runs |-> NoDip]
  /\ ret = [r \in Runs |-> "running"]
  /\ failed = [r \in Runs |-> "none"]
  /\ raised = [r \in Runs |-> "none"]
  /\ claims = {}
  /\ dip_calls = {}
  /\ upload_calls = {}

FilterIdle ==
  /\ f_pc = "idle"
  /\ f_aips = <<>>
  /\ f_location_uuid = LOCATION_UUID
  /\ f_result = <<>>

\* session = models.init(args["database_file"]) raises IOError: return 1
OpenLedgerFails(r) ==
  /\ pc[r] = "start"
  /\ failed' = [failed EXCEPT ![r] = "db"]
  /\ ret' = [ret EXCEPT ![r] = PreconditionStatus("db")]
  /\ pc' = [pc EXCEPT ![r] = "done"]
  /\ UNCHANGED <<ledger, upload_type, aip_uuids, idx, dip_path, raised,
                 claims, dip_calls, upload_calls>>

\* The ledger opens, am_client.aips(...) raises: return 2
ListAipsFails(r) ==
  /\ pc[r] = "start"
  /\ failed' = [failed EXCEPT ![r] = "list"]
  /\ ret' = [ret EXCEPT ![r] = PreconditionStatus("list")]
  /\ pc' = [pc EXCEPT ![r] = "done"]
  /\ UNCHANGED <<ledger, upload_type, aip_uuids, idx, dip_path, raised,
                 claims, dip_calls, upload_calls>>

\* The ledger opens, aips = am_client.aips(...) answers, and
\* aip_uuids = filter_aips(aips, args["location_uuid"])
ListAips(r) ==
  /\ pc[r] = "start"
  /\ \E filtered \in FilteredListings :
       /\ Listed(aip_uuids, NumRuns) + Len(filtered) <= MaxAips
       /\ aip_uuids' = [aip_uuids EXCEPT ![r] = filtered]
  /\ idx' = [idx EXCEPT ![r] = 1]
  /\ pc' = [pc EXCEPT ![r] = "loop"]
  /\ UNCHANGED <<ledger, upload_type, dip_path, ret, failed, raised, claims,
                 dip_calls, upload_calls>>

LedgerAfterCommitMutantNotPersisted(rows, uuid, result) == rows

\* The rows of the Aip table after session.add / session.commit: the row is
\* stored when the commit succeeds; a failed commit stores nothing.
LedgerAfterCommit(rows, uuid, result) ==
  IF result = "ok" THEN Append(rows, uuid) ELSE rows

\* One pass through the try block of the loop: add and commit the row.
ClaimAip(r) ==
  /\ pc[r] = "loop"
  /\ idx[r] <= Len(aip_uuids[r])
  /\ LET uuid == aip_uuids[r][idx[r]] IN
     \E result \in CommitResults(ledger, uuid) :
       LET next == AfterCommit(result) IN
       /\ ledger' = LedgerAfterCommit(ledger, uuid, result)
       /\ claims' = claims \cup
            {[run |-> r, pos |-> idx[r], uuid |-> uuid,
              outcome |-> CASE next = "proceed" -> "Claimed"
                            [] next = "continue" -> "AlreadyClaimed"
                            [] OTHER -> "Error"]}
       /\ pc' = [pc EXCEPT ![r] = CASE next = "proceed" -> "create"
                                    [] next = "continue" -> "loop"
                                    [] OTHER -> "raised"]
       /\ idx' = [idx EXCEPT ![r] = IF next = "continue" THEN @ + 1 ELSE @]
       /\ raised' = [raised EXCEPT ![r] = IF next = "raise" THEN result ELSE @]
  /\ UNCHANGED <<upload_type, aip_uuids, dip_path, ret, failed, dip_calls,
                 upload_calls>>

\* The rest of the loop body for a claimed identifier:
\* dip_path = create_dip.main(..., aip_uuid=uuid, ...), then
\* if upload_type == "ss-upload": ... elif upload_type == "atom-upload": ...
CreateAndUploadDip(r) ==
  /\ pc[r] = "create"
  /\ LET uuid == aip_uuids[r][idx[r]] IN
     \E result \in create_dip_main(uuid) :
       LET uploader == Uploader(upload_type, result)
           outcomes == CASE uploader = "storage_service_upload" -> ss_upload_main(result)
                         [] uploader = "atom_upload" -> atom_upload_main(result)
                         [] OTHER -> {"return"}
       IN
       /\ dip_path' = [dip_path EXCEPT ![r] = result]
       /\ dip_calls' = dip_calls \cup
            {[run |-> r, pos |-> idx[r], uuid |-> uuid, result |-> result]}
       /\ upload_calls' =
            IF uploader = "none" THEN upload_calls
            ELSE upload_calls \cup
                   {[run |-> r, pos |-> idx[r], uploader |-> uploader,
                     dip_path |-> result]}
       /\ \E outcome \in outcomes :
            /\ pc' = [pc EXCEPT ![r] = IF outcome = "raise" THEN "raised" ELSE "loop"]
            /\ idx' = [idx EXCEPT ![r] = IF outcome = "raise" THEN @ ELSE @ + 1]
            /\ raised' = [raised EXCEPT ![r] = IF outcome = "raise" THEN "upload" ELSE @]
  /\ UNCHANGED <<ledger, upload_type, aip_uuids, ret, failed, claims>>

\* The loop is exhausted: "All AIPs have been processed", main returns None.
Finish(r) ==
  /\ pc[r] = "loop"
  /\ idx[r] > Len(aip_uuids[r])
  /\ ret' = [ret EXCEPT ![r] = "None"]
  /\ pc' = [pc EXCEPT ![r] = "done"]
  /\ UNCHANGED <<ledger, upload_type, aip_uuids, idx, dip_path, failed, raised,
                 claims, dip_calls, upload_calls>>

\* ================================ storage_service_upload.main, check_async
\* def check_async(url, headers={}, tries=60, interval=10)
tries == 60
interval == 10
\* requests.codes.accepted
accepted == 202

NoneResult == [null |-> TRUE, keys |-> {}]
\* payload["result"]: None, {}, {"uuid": ...} or a dict without "uuid"
Results ==
  {NoneResult, [null |-> FALSE, keys |-> {}], [null |-> FALSE, keys |-> {"uuid"}],
   [null |-> FALSE, keys |-> {"size"}]}
\* Python truth value of a result: None and {} are false.
Truthy(value) == ~value.null /\ value.keys # {}

\* Response of requests.post: its status code and whether it carries the
\* "Location" header.
NoResponse == [status_code |-> 0, location |-> FALSE]
PostResponses ==
  {[status_code |-> c, location |-> l] : c \in {accepted, 401}, l \in BOOLEAN}

\* The negation of the condition of the if after the POST.
IsAccepted(response) ==
  ~(response.status_code # accepted \/ ~response.location)

AfterResponseMutantSkipsCleanup(response) ==
  IF ~IsAccepted(response) THEN "local" ELSE "poll"

\* if not accepted: log, go on to the cleanup / else: check_async
AfterResponse(response) ==
  IF ~IsAccepted(response) THEN "cleanup" ELSE "poll"

\* What requests.get meets: a transport fault, or a response with a status
\* code and the JSON payload {completed, was_error, error, result}.
NoGet ==
  [fault |-> FALSE, status_code |-> 0, completed |-> FALSE, was_error |-> FALSE,
   error |-> "", result |-> NoneResult]
GetResponses ==
  {[NoGet EXCEPT !.fault = TRUE],
   [NoGet EXCEPT !.status_code = 500],
   [NoGet EXCEPT !.status_code = 200]}
  \cup {[NoGet EXCEPT !.status_code = 200, !.completed = TRUE, !.was_error = TRUE,
                      !.error = e] : e \in {"x", "y"}}
  \cup {[NoGet EXCEPT !.status_code = 200, !.completed = TRUE, !.result = r] :
          r \in Results}

\* for _ in range(tries): another iteration follows i completed ones
range_has_nextMutantOffByOne(i, n) == i <= n

range_has_next(i, n) == i < n

check_async_stepMutantInverted(response) ==
  IF response.fault THEN "raise"
  ELSE IF response.status_code >= 400 THEN "raise"
  ELSE IF response.completed THEN "sleep"
  ELSE IF response.was_error THEN "raise"
  ELSE "return"

check_async_stepMutantRetriesHttpError(response) ==
  IF response.fault THEN "raise"
  ELSE IF response.status_code >= 400 THEN "sleep"
  ELSE IF ~response.completed THEN "sleep"
  ELSE IF response.was_error THEN "raise"
  ELSE "return"

\* The body of the for loop of check_async for one response.
check_async_step(response) ==
  IF response.fault THEN "raise"                     \* requests.get raises
  ELSE IF response.status_code >= 400 THEN "raise"   \* raise_for_status()
  ELSE IF ~response.completed THEN "sleep"           \* time.sleep; continue
  ELSE IF response.was_error THEN "raise"            \* RequestException(error)
  ELSE "return"                                      \* return payload["result"]

\* The exception the loop body raises for a response it does not survive.
check_async_exception(response) ==
  IF response.fault THEN "ConnectionError"          \* requests.get
  ELSE IF response.status_code >= 400 THEN "HTTPError"
  ELSE response.error                               \* RequestException(payload["error"])

NotCalled == [kind |-> "none", result |-> NoneResult]
Polling == [kind |-> "polling", result |-> NoneResult]

\* What main logs for the value check_async returned.
AsyncLog(value) ==
  IF ~Truthy(value) THEN <<"warning:timeout">>
  ELSE IF "uuid" \in value.keys THEN <<"info:stored", "info:ss_uuid">>
  ELSE <<"info:stored">>

os_path_existsMutantNever(staging) == FALSE

\* os.path.exists(upload_dip_dir)
os_path_exists(staging) == staging # "absent"

UploadIdle ==
  /\ u_pc = "idle"
  /\ u_dip_path = NoDip
  /\ u_delete_local_copy = FALSE
  /\ u_existed = FALSE
  /\ u_staging = "absent"
  /\ u_source = "present"
  /\ u_copy = "none"
  /\ u_response = NoResponse
  /\ u_ret = "running"
  /\ u_raised = "none"
  /\ u_ops = <<>>
  /\ u_log = <<>>
  /\ c_tries = tries
  /\ c_i = 0
  /\ c_outcome = NotCalled
  /\ c_response = NoGet
  /\ c_error = "none"
  /\ c_slept = 0

\* The call main(..., dip_path, aip_uuid, delete_local_copy): dip_path is what
\* create_dip.main returned, the staging path is free or taken.
UploadInit ==
  /\ u_pc = "start"
  /\ u_dip_path \in create_dip_main("A")
  /\ u_delete_local_copy \in BOOLEAN
  /\ u_existed \in BOOLEAN
  /\ u_staging = IF u_existed THEN "foreign" ELSE "absent"
  /\ u_source = "present"
  /\ u_copy = "none"
  /\ u_response = NoResponse
  /\ u_ret = "running"
  /\ u_raised = "none"
  /\ u_ops = <<>>
  /\ u_log = <<>>
  /\ c_tries = tries
  /\ c_i = 0
  /\ c_outcome = NotCalled
  /\ c_response = NoGet
  /\ c_error = "none"
  /\ c_slept = 0

\* upload_dir_name = os.path.basename(dip_path) with a dip_path that is not
\* a path: TypeError leaves main.
BadDipPath ==
  /\ u_pc = "start"
  /\ u_dip_path.kind # "path"
  /\ u_pc' = "raised"
  /\ u_raised' = "TypeError"
  /\ UNCHANGED <<u_dip_path, u_delete_local_copy, u_existed, u_staging, u_source,
                 u_copy, u_response, u_ret, u_ops, u_log, c_tries, c_i, c_outcome>>
  /\ UNCHANGED poll_hist

\* if os.path.exists(upload_dip_dir): LOGGER.error(...); return 1
StagingExists ==
  /\ u_pc = "start"
  /\ u_dip_path.kind = "path"
  /\ os_path_exists(u_staging)
  /\ u_log' = Append(u_log, "error:exists")
  /\ u_ret' = "1"
  /\ u_pc' = "done"
  /\ UNCHANGED <<u_dip_path, u_delete_local_copy, u_existed, u_staging, u_source,
                 u_copy, u_response, u_raised, u_ops, c_tries, c_i, c_outcome>>
  /\ UNCHANGED poll_hist

\* shutil.copytree(dip_path, upload_dip_dir); on OSError or shutil.Error
\* log a warning and return 2. A failed copy may leave a partial tree; a
\* destination that exists makes copytree fail.
CopyTree ==
  /\ u_pc = "start"
  /\ u_dip_path.kind = "path"
  /\ ~os_path_exists(u_staging)
  /\ u_ops' = Append(u_ops, "copytree")
  /\ \/ /\ u_staging = "absent"
        /\ u_staging' = "copy"
        /\ u_copy' = "ok"
        /\ u_pc' = "post"
        /\ UNCHANGED <<u_ret, u_log>>
     \/ /\ u_staging' \in (IF u_staging = "absent" THEN {"absent", "partial"}
                           ELSE {u_staging})
        /\ u_copy' = "failed"
        /\ u_log' = Append(u_log, "warning:copy")
        /\ u_ret' = "2"
        /\ u_pc' = "done"
  /\ UNCHANGED <<u_dip_path, u_delete_local_copy, u_existed, u_source, u_response,
                 u_raised, c_tries, c_i, c_outcome>>
  /\ UNCHANGED poll_hist

\* The size walk, dip_data and response = requests.post(...). An exception
\* of the request is not caught in main. Then the if on the response.
Submit ==
  /\ u_pc = "post"
  /\ u_ops' = Append(u_ops, "post")
  /\ \/ /\ u_pc' = "raised"
        /\ u_raised' = "RequestException"
        /\ UNCHANGED <<u_response, u_log, c_outcome>>
     \/ \E response \in PostResponses :
          /\ u_response' = response
          /\ u_pc' = AfterResponse(response)
          /\ u_log' = Append(u_log, IF IsAccepted(response) THEN "info:storing"
                                    ELSE "error:not_stored")
          /\ c_outcome' = IF IsAccepted(response) THEN Polling ELSE c_outcome
          /\ UNCHANGED u_raised
  /\ UNCHANGED <<u_dip_path, u_delete_local_copy, u_existed, u_staging, u_source,
                 u_copy, u_ret, c_tries, c_i>>
  /\ UNCHANGED poll_hist

\* One iteration of the loop of check_async and, when it ends the call, what
\* main does with the value or the RequestException.
Poll ==
  /\ u_pc = "poll"
  /\ range_has_next(c_i, c_tries)
  /\ c_i' = c_i + 1
  /\ \E response \in GetResponses :
       LET step == check_async_step(response) IN
       /\ c_response' = response
       /\ \/ /\ step = "sleep"
             /\ u_ops' = u_ops \o <<"get", "sleep">>
             /\ c_slept' = c_slept + interval
             /\ UNCHANGED <<u_pc, u_log, c_outcome, c_error>>
          \/ /\ step = "raise"
             /\ u_ops' = Append(u_ops, "get")
             /\ c_outcome' = [kind |-> "raised", result |-> NoneResult]
             /\ c_error' = check_async_exception(response)
             /\ u_log' = Append(u_log, "error:check_async")
             /\ u_pc' = "cleanup"
             /\ UNCHANGED c_slept
          \/ /\ step = "return"
             /\ u_ops' = Append(u_ops, "get")
             /\ c_outcome' = [kind |-> "returned", result |-> response.result]
             /\ u_log' = u_log \o AsyncLog(response.result)
             /\ u_pc' = "cleanup"
             /\ UNCHANGED <<c_error, c_slept>>
  /\ UNCHANGED <<u_dip_path, u_delete_local_copy, u_existed, u_staging, u_source,
                 u_copy, u_response, u_ret, u_raised, c_tries>>

\* range(tries) is exhausted: check_async falls off its end and returns None.
PollExhausted ==
  /\ u_pc = "poll"
  /\ ~range_has_next(c_i, c_tries)
  /\ c_outcome' = [kind |-> "exhausted", result |-> NoneResult]
  /\ u_log' = u_log \o AsyncLog(NoneResult)
  /\ u_pc' = "cleanup"
  /\ UNCHANGED <<u_dip_path, u_delete_local_copy, u_existed, u_staging, u_source,
                 u_copy, u_response, u_ret, u_raised, u_ops, c_tries, c_i>>
  /\ UNCHANGED poll_hist

RemoveStagingMutantFailureEndsCleanup ==
  /\ u_pc = "cleanup"
  /\ u_ops' = Append(u_ops, "rmtree_staging")
  /\ \/ /\ u_staging' = "absent"
        /\ u_log' = Append(u_log, "info:removing_duplicates")
        /\ u_pc' = "local"
        /\ UNCHANGED u_ret
     \/ /\ u_staging' = u_staging
        /\ u_log' = u_log \o <<"info:removing_duplicates", "warning:rm_staging">>
        /\ u_pc' = "done"
        /\ u_ret' = "None"
  /\ UNCHANGED <<u_dip_path, u_delete_local_copy, u_existed, u_source, u_copy,
                 u_response, u_raised, c_tries, c_i, c_outcome>>
  /\ UNCHANGED poll_hist

\* LOGGER.info("Removing duplicates."); shutil.rmtree(upload_dip_dir), a
\* failure is logged.
RemoveStaging ==
  /\ u_pc = "cleanup"
  /\ u_ops' = Append(u_ops, "rmtree_staging")
  /\ \/ /\ u_staging' = "absent"
        /\ u_log' = Append(u_log, "info:removing_duplicates")
     \/ /\ u_staging' = u_staging
        /\ u_log' = u_log \o <<"info:removing_duplicates", "warning:rm_staging">>
  /\ u_pc' = "local"
  /\ UNCHANGED <<u_dip_path, u_delete_local_copy, u_existed, u_source, u_copy,
                 u_response, u_ret, u_raised, c_tries, c_i, c_outcome>>
  /\ UNCHANGED poll_hist

\* if delete_local_copy: shutil.rmtree(dip_path), a failure is logged; then
\* main falls off its end and returns None.
RemoveLocal ==
  /\ u_pc = "local"
  /\ IF u_delete_local_copy
     THEN /\ u_ops' = Append(u_ops, "rmtree_source")
          /\ \/ /\ u_source' = "removed"
                /\ u_log' = Append(u_log, "info:deleting_local")
             \/ /\ u_source' = u_source
                /\ u_log' = u_log \o <<"info:deleting_local", "warning:rm_local">>
     ELSE UNCHANGED <<u_ops, u_source, u_log>>
  /\ u_ret' = "None"
  /\ u_pc' = "done"
  /\ UNCHANGED <<u_dip_path, u_delete_local_copy, u_existed, u_staging, u_copy,
                 u_response, u_raised, c_tries, c_i, c_outcome>>
  /\ UNCHANGED poll_hist

\* The process of run r dies: between two statements of main, or inside
\* create_dip.main after it was entered. Committed rows stay in the
\* database file; nothing else of the run survives.
Crash(r) ==
  /\ pc[r] \in {"start", "loop", "create"}
  /\ pc' = [pc EXCEPT ![r] = "crashed"]
  /\ \/ UNCHANGED dip_calls
     \/ /\ pc[r] = "create"
        /\ dip_calls' = dip_calls \cup
             {[run |-> r, pos |-> idx[r], uuid |-> aip_uuids[r][idx[r]],
               result |-> NoDip]}
  /\ UNCHANGED <<ledger, upload_type, aip_uuids, idx, dip_path, ret, failed,
                 raised, claims, upload_calls>>

Init == BatchInit /\ FilterIdle /\ UploadIdle

Next ==
  \E r \in Runs :
    \/ OpenLedgerFails(r) /\ UNCHANGED <<filter_vars, upload_vars>>
    \/ ListAipsFails(r) /\ UNCHANGED <<filter_vars, upload_vars>>
    \/ ListAips(r) /\ UNCHANGED <<filter_vars, upload_vars>>
    \/ ClaimAip(r) /\ UNCHANGED <<filter_vars, upload_vars>>
    \/ CreateAndUploadDip(r) /\ UNCHANGED <<filter_vars, upload_vars>>
    \/ Finish(r) /\ UNCHANGED <<filter_vars, upload_vars>>

Spec == Init /\ [][Next]_vars

\* The batch runs with crashes.
NextCrash ==
  \/ Next
  \/ \E r \in Runs : Crash(r) /\ UNCHANGED <<filter_vars, upload_vars>>

SpecCrash == Init /\ [][NextCrash]_vars

\* ====================================================== filter_aips alone
\* The dicts filter_aips is applied to: "uuid" and "current_location" each
\* present or absent; the location is the reference of the target, of another
\* location, the bare location UUID, or the reference without its last "/".
NoKey == "<absent>"
MkAip(uuid, location) ==
  [k \in ({"uuid"} \cap (IF uuid = NoKey THEN {} ELSE {"uuid"}))
         \cup ({"current_location"} \cap (IF location = NoKey THEN {} ELSE {"current_location"}))
     |-> IF k = "uuid" THEN uuid ELSE location]
FilterLocations ==
  {NoKey, LocationRef(LOCATION_UUID), LocationRef(OTHER_LOCATION_UUID),
   LOCATION_UUID, "/api/v2/location/" \o LOCATION_UUID}
FilterRecords == {MkAip(u, l) : u \in Uuids \cup {NoKey}, l \in FilterLocations}

FilterInit ==
  /\ f_pc = "call"
  /\ f_aips \in SeqsUpTo(FilterRecords, MaxRecords)
  /\ f_location_uuid \in {LOCATION_UUID, OTHER_LOCATION_UUID}
  /\ f_result = <<>>

\* filtered_aips = filter_aips(aips, location_uuid)
FilterAips ==
  /\ f_pc = "call"
  /\ f_result' = filter_aips(f_aips, f_location_uuid)
  /\ f_pc' = "returned"
  /\ UNCHANGED <<f_aips, f_location_uuid>>

InitFilter == BatchIdle /\ FilterInit /\ UploadIdle
NextFilter == FilterAips /\ UNCHANGED <<batch_vars, upload_vars>>
SpecFilter == InitFilter /\ [][NextFilter]_vars

\* ======================================= storage_service_upload.main alone
InitUpload == BatchIdle /\ FilterIdle /\ UploadInit

NextUpload ==
  \/ BadDipPath /\ UNCHANGED <<batch_vars, filter_vars>>
  \/ StagingExists /\ UNCHANGED <<batch_vars, filter_vars>>
  \/ CopyTree /\ UNCHANGED <<batch_vars, filter_vars>>
  \/ Submit /\ UNCHANGED <<batch_vars, filter_vars>>
  \/ Poll /\ UNCHANGED <<batch_vars, filter_vars>>
  \/ PollExhausted /\ UNCHANGED <<batch_vars, filter_vars>>
  \/ RemoveStaging /\ UNCHANGED <<batch_vars, filter_vars>>
  \/ RemoveLocal /\ UNCHANGED <<batch_vars, filter_vars>>

SpecUpload == InitUpload /\ [][NextUpload]_vars

\* ---------------------------------------------------------------------------
\* check_async called with any attempt limit: the state of main when the
\* storage service has accepted the submission, and the loop from there.
\* ---------------------------------------------------------------------------
PollInit ==
  /\ u_pc = "poll"
  /\ u_dip_path = DipCreated("A")
  /\ u_delete_local_copy \in BOOLEAN
  /\ u_existed = FALSE
  /\ u_staging = "copy"
  /\ u_source = "present"
  /\ u_copy = "ok"
  /\ u_response = [status_code |-> accepted, location |-> TRUE]
  /\ u_ret = "running"
  /\ u_raised = "none"
  /\ u_ops = <<"copytree", "post">>
  /\ u_log = <<"info:storing">>
  /\ c_tries \in 1..MaxTries
  /\ c_i = 0
  /\ c_outcome = Polling
  /\ c_response = NoGet
  /\ c_error = "none"
  /\ c_slept = 0

InitPoll == BatchIdle /\ FilterIdle /\ PollInit

NextPoll ==
  \/ Poll /\ UNCHANGED <<batch_vars, filter_vars>>
  \/ PollExhausted /\ UNCHANGED <<batch_vars, filter_vars>>

SpecPoll == InitPoll /\ [][NextPoll]_vars

\* ================================================================= claims

\* C1: for every claimed identifier an uploader is invoked only if DIP
\* creation produced a path: after a failure value no uploader is called,
\* after a path exactly the configured uploader is called (none when no
\* upload type is configured).
C1_UploadOnlyAfterUsablePath ==
  /\ \A u \in upload_calls :
       \E d \in dip_calls : d.run = u.run /\ d.pos = u.pos
  /\ \A d \in dip_calls :
       LET ups == {u \in upload_calls : u.run = d.run /\ u.pos = d.pos}
           call(name) == [run |-> d.run, pos |-> d.pos, uploader |-> name,
                          dip_path |-> d.result]
       IN IF d.result.kind # "path" THEN ups = {}
          ELSE CASE upload_type = "ss-upload" -> ups = {call("storage_service_upload")}
                 [] upload_type = "atom-upload" -> ups = {call("atom_upload")}
                 [] OTHER -> ups = {}

\* C2: first writer wins: of the claim attempts on one identifier that end
\* as Claimed or AlreadyClaimed, by one run or by several, exactly one is
\* Claimed; no IntegrityError leaves main; the ledger holds no identifier
\* twice.
C2_FirstWriterWins ==
  /\ \A u \in Uuids :
       LET attempts == {c \in claims : c.uuid = u /\ c.outcome # "Error"}
       IN attempts # {} =>
            Cardinality({c \in attempts : c.outcome = "Claimed"}) = 1
  /\ \A r \in Runs : raised[r] # "IntegrityError"
  /\ \A i, j \in 1..Len(ledger) : ledger[i] = ledger[j] => i = j

C2_Witness ==
  \E c1, c2, c3 \in claims :
    /\ c1.uuid = c2.uuid /\ c2.uuid = c3.uuid
    /\ c1.outcome = "Claimed"
    /\ c2.outcome = "AlreadyClaimed" /\ c2.run = c1.run
    /\ c3.outcome = "AlreadyClaimed" /\ c3.run # c1.run

\* C3: DIP creation is invoked for an identifier only by the claim attempt
\* that returned Claimed, so at most once per identifier over all runs; the
\* identifier stays in the ledger whatever became of its DIP.
C3_AtMostOnceDipCreation ==
  /\ \A d \in dip_calls :
       /\ [run |-> d.run, pos |-> d.pos, uuid |-> d.uuid, outcome |-> "Claimed"] \in claims
       /\ d.uuid \in Range(ledger)
  /\ \A d1, d2 \in dip_calls : d1.uuid = d2.uuid => d1 = d2

C3_Witness ==
  \E d \in dip_calls : \E c \in claims :
    /\ d.result = DipFailure
    /\ c.uuid = d.uuid /\ c.run # d.run /\ c.outcome = "AlreadyClaimed"
    /\ pc[c.run] = "done" /\ ret[c.run] = "None"
    /\ pc[d.run] \in {"done", "raised"}

\* C4: a run that passed its preconditions is not aborted by an identifier
\* that is already claimed or whose DIP creation failed, under any upload
\* type: no exception leaves main at such an identifier.
C4_RunReachesEndOfList ==
  \A r \in Runs :
    pc[r] = "raised" =>
      /\ raised[r] # "IntegrityError"
      /\ ~(raised[r] = "upload" /\ dip_path[r].kind # "path")

\* C5: main returns 1 when the ledger cannot be opened and 2 when the
\* listing fails, and then the run has claimed nothing, created no DIP and
\* called no uploader; a run that passed both returns None on completion.
C5_FatalPreconditions ==
  \A r \in Runs :
    /\ failed[r] = "db" => ret[r] = "1"
    /\ failed[r] = "list" => ret[r] = "2"
    /\ ret[r] \in {"1", "2"} =>
         /\ failed[r] # "none"
         /\ \A c \in claims : c.run # r
         /\ \A d \in dip_calls : d.run # r
         /\ \A u \in upload_calls : u.run # r
    /\ (pc[r] = "done" /\ failed[r] = "none") => ret[r] = "None"

C5_Witness ==
  \E r1, r2 \in Runs :
    /\ ret[r1] = "1" /\ ret[r2] = "2"
    /\ claims = {} /\ ledger = <<>>

\* The records filter_aips is to select, stated on the record alone.
MatchesTarget(aip, target) ==
  /\ "uuid" \in DOMAIN aip
  /\ "current_location" \in DOMAIN aip
  /\ aip["current_location"] = "/api/v2/location/" \o target \o "/"

IdentifiersAt(aips, target) ==
  LET matching == SelectSeq(aips, LAMBDA aip : MatchesTarget(aip, target))
  IN [i \in 1..Len(matching) |-> matching[i]["uuid"]]

\* The list returned is the list of the identifiers of the matching records.
C6_FilterResult ==
  f_pc = "returned" => f_result = IdentifiersAt(f_aips, f_location_uuid)

\* The call changes neither its arguments nor any other state.
C6_FilterIsPure ==
  [][f_pc = "call" /\ f_pc' = "returned" =>
       /\ f_aips' = f_aips
       /\ f_location_uuid' = f_location_uuid
       /\ UNCHANGED <<batch_vars, upload_vars>>]_vars

\* C6: filter_aips returns the identifiers of exactly the records that have
\* an identifier and a location equal to "/api/v2/location/<target>/", in
\* input order, one entry per matching record, and changes nothing else.
C6_FilterAips == []C6_FilterResult /\ C6_FilterIsPure

C6_Witness ==
  /\ f_pc = "returned"
  /\ Len(f_aips) = 3
  /\ Len(f_result) = 2 /\ f_result[1] # f_result[2]
  /\ \E i \in 1..Len(f_aips) : ~HasKey(f_aips[i], "current_location")

\* C7: when an entry is at the staging path as main is called, main returns
\* 1 and does nothing else: no copy, no request, no removal; the entry and
\* the source DIP stay, also with delete_local_copy.
C7_StagingExistsStops ==
  (u_existed /\ u_dip_path.kind = "path") =>
    /\ u_ops = <<>>
    /\ u_staging = "foreign"
    /\ u_source = "present"
    /\ u_raised = "none"
    /\ u_pc \in {"start", "done"}
    /\ u_pc = "done" => u_ret = "1"

C7_Witness ==
  /\ u_existed /\ u_dip_path.kind = "path" /\ u_delete_local_copy
  /\ u_pc = "done" /\ u_ret = "1"

\* C8: the status main returns names the outcome: 1 staging path exists,
\* 2 copy failed, 3 submission not accepted, 4 polling failed or timed out,
\* 0 submission accepted and the poller returned a result.
C8_ReturnStatus ==
  u_pc = "done" =>
    u_ret = CASE u_existed -> "1"
              [] u_copy = "failed" -> "2"
              [] ~IsAccepted(u_response) -> "3"
              [] c_outcome.kind \in {"raised", "exhausted"} -> "4"
              [] OTHER -> "0"

\* C9 as stated: every attempt that started copying has attempted the
\* removal of the staging path when it ends.
C9_StagingAlwaysRemoved ==
  (u_pc \in {"done", "raised"} /\ "copytree" \in Range(u_ops)) =>
    "rmtree_staging" \in Range(u_ops)

\* C9 amended: when the attempt ends, the removal of the staging path has
\* been attempted (once) exactly if the POST returned a response, accepted or
\* not, whatever the poller then did; after a copy fault or an exception of
\* the POST the attempt ends without it.
C9_StagingRemovedAfterResponse ==
  u_pc \in {"done", "raised"} =>
    /\ "rmtree_staging" \in Range(u_ops) <=> u_response # NoResponse
    /\ Cardinality({i \in 1..Len(u_ops) : u_ops[i] = "rmtree_staging"}) <= 1
    /\ (u_copy = "failed" \/ u_raised = "RequestException") =>
         "rmtree_staging" \notin Range(u_ops)

C9_Witness ==
  /\ u_pc = "done"
  /\ ~IsAccepted(u_response) /\ u_response # NoResponse
  /\ "rmtree_staging" \in Range(u_ops)
  /\ u_staging = "absent"

\* C10: the source DIP path is removed only if delete_local_copy was
\* requested and the store accepted the DIP: the submission was accepted and
\* the poller returned a result.
C10_SourceRemovedOnlyIfAccepted ==
  u_source = "removed" =>
    /\ u_delete_local_copy
    /\ IsAccepted(u_response)
    /\ c_outcome.kind = "returned"

\* C11: after an accepted submission a poller that fails (transport fault,
\* HTTP error, completed with was_error) or runs out of attempts is logged
\* and no exception leaves main; main then attempts the removal of the
\* staging copy and after it, if delete_local_copy was requested, of the
\* source path, also when the removal of the staging copy failed.
C11_PollFailureStillCleansUp ==
  (IsAccepted(u_response) /\ c_outcome.kind \in {"raised", "exhausted"}) =>
    /\ u_raised = "none" /\ u_pc # "raised"
    /\ c_outcome.kind = "raised" => "error:check_async" \in Range(u_log)
    /\ c_outcome.kind = "exhausted" => "warning:timeout" \in Range(u_log)
    /\ u_pc = "done" =>
         LET n == Len(u_ops)
             removals == {i \in 1..n : u_ops[i] \in {"rmtree_staging", "rmtree_source"}}
         IN /\ u_ret = "None"
            /\ IF u_delete_local_copy
               THEN /\ removals = {n - 1, n}
                    /\ u_ops[n - 1] = "rmtree_staging"
                    /\ u_ops[n] = "rmtree_source"
               ELSE /\ removals = {n}
                    /\ u_ops[n] = "rmtree_staging"

C11_Witness ==
  /\ u_pc = "done"
  /\ IsAccepted(u_response) /\ c_outcome.kind = "raised"
  /\ u_delete_local_copy
  /\ "warning:rm_staging" \in Range(u_log)
  /\ u_source = "removed"

\* The requests and sleeps of check_async, in order: what main did after the
\* copy and the submission.
PollOps == SubSeq(u_ops, 3, Len(u_ops))

Count(ops, op) == Cardinality({i \in 1..Len(ops) : ops[i] = op})

\* k rounds of a request followed by a sleep.
IsGetSleepRounds(ops, k) ==
  /\ Len(ops) = 2 * k
  /\ \A j \in 1..k : ops[2 * j - 1] = "get" /\ ops[2 * j] = "sleep"

\* C12: when the first completed response without error is the k-th one
\* (k <= tries), check_async has made exactly k requests and k - 1 sleeps of
\* interval seconds, one after each incomplete response, returns the result
\* of that response, raises nothing, and the request that completed is the
\* last thing it did.
C12_ReturnsAtFirstCompletion ==
  c_outcome.kind = "returned" =>
    /\ c_response.completed /\ ~c_response.was_error
    /\ c_outcome.result = c_response.result
    /\ c_error = "none"
    /\ c_i <= c_tries
    /\ PollOps = SubSeq(PollOps, 1, 2 * (c_i - 1)) \o <<"get">>
    /\ IsGetSleepRounds(SubSeq(PollOps, 1, 2 * (c_i - 1)), c_i - 1)
    /\ c_slept = (c_i - 1) * interval

C12_Witness ==
  /\ c_outcome.kind = "returned"
  /\ c_tries = 3 /\ c_i = 3
  /\ Count(PollOps, "get") = 3 /\ Count(PollOps, "sleep") = 2
  /\ c_outcome.result = [null |-> FALSE, keys |-> {"uuid"}]

\* C13: check_async never makes more than tries requests and sleeps
\* interval seconds between one request and the next; when every request
\* was answered incomplete it has made exactly tries requests and ends
\* without raising, with the value None.
C13_BoundedPolling ==
  /\ Count(PollOps, "get") = c_i
  /\ c_i <= c_tries
  /\ \A j \in 1..(Len(PollOps) - 1) : PollOps[j] = "get" => PollOps[j + 1] = "sleep"
  /\ c_slept = Count(PollOps, "sleep") * interval
  /\ c_outcome.kind = "exhausted" =>
       /\ c_i = c_tries
       /\ ~c_response.completed
       /\ c_error = "none" /\ u_raised = "none"
       /\ c_outcome.result = NoneResult

C13_Witness ==
  /\ c_outcome.kind = "exhausted"
  /\ c_tries = 2
  /\ Count(PollOps, "get") = 2

\* A response check_async does not survive.
IsFailure(response) ==
  \/ response.fault
  \/ response.status_code >= 400
  \/ response.completed /\ response.was_error

\* C14: a transport fault, an HTTP error status or a completed response with
\* was_error ends check_async at once with an exception, whatever attempts
\* remain: that request is the last thing it did, no sleep and no request
\* follows it, and for was_error the exception carries the payload's error.
C14_FailureEndsPolling ==
  /\ (c_i > 0 /\ IsFailure(c_response)) => c_outcome.kind = "raised"
  /\ c_outcome.kind = "raised" =>
       /\ IsFailure(c_response)
       /\ c_error # "none"
       /\ c_response.fault => c_error = "ConnectionError"
       /\ (~c_response.fault /\ c_response.status_code >= 400) => c_error = "HTTPError"
       /\ (~c_response.fault /\ c_response.status_code < 400) => c_error = c_response.error
       /\ PollOps = SubSeq(PollOps, 1, 2 * (c_i - 1)) \o <<"get">>
       /\ IsGetSleepRounds(SubSeq(PollOps, 1, 2 * (c_i - 1)), c_i - 1)

C14_Witness ==
  /\ c_outcome.kind = "raised"
  /\ c_response.was_error /\ c_error = "x"
  /\ c_i = 2 /\ c_tries = 3

\* C16: main's log tells the ways the poller ends apart: the timeout
\* warning is logged exactly when the attempts ran out, and a job the
\* storage service reported completed without error is logged as stored.
C16_LogDistinguishesOutcomes ==
  /\ "warning:timeout" \in Range(u_log) <=> c_outcome.kind = "exhausted"
  /\ c_outcome.kind = "returned" => "info:stored" \in Range(u_log)

\* The claim of the identifier a DIP creation is invoked for is in the ledger.
C15_AttemptedWorkIsClaimed ==
  /\ \A d \in dip_calls : d.uuid \in Range(ledger)
  /\ \A r \in Runs : pc[r] = "create" => aip_uuids[r][idx[r]] \in Range(ledger)

\* A step keeps every row of the ledger, leaves the ledger alone when it
\* skips an identifier, and invokes DIP creation only for an identifier
\* whose claim was committed by an earlier step.
C15_LedgerStep ==
  /\ Len(ledger') >= Len(ledger)
  /\ SubSeq(ledger', 1, Len(ledger)) = ledger
  /\ (\E c \in claims' \ claims : c.outcome = "AlreadyClaimed") => ledger' = ledger
  /\ \A d \in dip_calls' \ dip_calls : d.uuid \in Range(ledger)

\* C15: in every state of the batch runs, the states left by a crash
\* included, every identifier DIP creation was invoked for has its claim in
\* the ledger, committed before the creation started; skipping an
\* AlreadyClaimed identifier leaves the ledger unchanged; rows are never
\* changed or removed, so the ledger only grows.
C15_LedgerConsistent ==
  [] C15_AttemptedWorkIsClaimed /\ [][C15_LedgerStep]_vars

C15_Witness ==
  \E r \in Runs : \E d \in dip_calls : \E c \in claims :
    /\ pc[r] = "crashed"
    /\ d.run = r /\ d.result = NoDip
    /\ c.uuid = d.uuid /\ c.run # r /\ c.outcome = "AlreadyClaimed"

====
